---------------------------- MODULE Spec2Model ----------------------------
(***************************************************************************)
(* A model of hile/ultimatum's ZFS layer: the snapshot catalog, pools and  *)
(* volumes of src/ultimatum/zfs.py (ZFSSnapshots, ZFSPool, ZFSVolume) and  *)
(* the property and snapshot API of src/ultimatum/zfs/zfs.py and           *)
(* src/ultimatum/zfs/zpool.py (ZFS, ZPool).                                *)
(*                                                                         *)
(* Text is modelled as TLA+ strings, taken apart character by character    *)
(* with Len, SubSeq and \o, so that splitting, parsing and formatting are  *)
(* computed, never assumed.                                                *)
(***************************************************************************)
EXTENDS Integers, Sequences, FiniteSets, TLC

VARIABLES
    extSnaps,     \* external subsystem: snapshot names, in listing order
    catalog,      \* ZFSSnapshots: pool -> volume -> list of tags
    catErr,       \* outcome of the last catalog/snapshot operation
    catOp,        \* the last catalog/snapshot operation and its arguments
    catCmds,      \* external commands issued by the last operation
    imported,     \* external subsystem: whether the pool is imported
    extVols,      \* external subsystem: the pool's datasets, as listed
    constructed,  \* whether ZFSPool.__init__ has returned
    vols,         \* ZFSPool: the list of its ZFSVolume objects
    poolOp,       \* the last pool operation and its arguments
    poolErr,      \* the error it raised, "none" when it returned
    poolRet,      \* the value it returned
    poolCmds,     \* external commands issued by the last pool operation
    extProp,      \* external subsystem: the property it reports, and its text
    propOp,       \* the last property operation and its arguments
    propErr,      \* the error it raised, "none" when it returned
    propRet,      \* the value it returned
    propCmds,     \* external commands issued by the last property operation
    fsRet,        \* the value the last snapshot operation returned
    pipeline,     \* the send/receive processes of a clone and their state
    callers       \* concurrent callers of ZFS.create_snapshot: where each is

catVars == <<extSnaps, catalog, catErr, catOp, catCmds>>

poolVars == <<imported, extVols, constructed, vols, poolOp, poolErr, poolRet, poolCmds>>

propVars == <<extProp, propOp, propErr, propRet, propCmds>>

fsVars == <<fsRet, pipeline, callers>>

vars == <<catVars, poolVars, propVars, fsVars>>

(***************************************************************************)
(* Strings                                                                 *)
(***************************************************************************)

\* The characters the model uses, in ASCII order (str comparison in python
\* 2 is byte-wise).
Ascii == "\t \"+-./0123456789:=@ABCDEFGHIJKLMNOPQRSTUVWXYZ_abcdefghijklmnopqrstuvwxyz"

Char(s, i) == SubSeq(s, i, i)

\* The rank of each character, tabulated once.
OrdTable ==
    [c \in {Char(Ascii, i) : i \in 1..Len(Ascii)} |->
        CHOOSE i \in 1..Len(Ascii) : Char(Ascii, i) = c]

Ord(c) == OrdTable[c]

Digits == "0123456789"

IsDigit(c) == c \in {"0", "1", "2", "3", "4", "5", "6", "7", "8", "9"}

DigitVal(c) == Ord(c) - Ord("0")

AllDigits(s) == \A i \in 1..Len(s) : IsDigit(Char(s, i))

RECURSIVE NumVal(_)
NumVal(s) ==
    IF Len(s) = 0 THEN 0
    ELSE 10 * NumVal(SubSeq(s, 1, Len(s) - 1)) + DigitVal(Char(s, Len(s)))

\* Index of the first occurrence of character c in s, 0 when there is none.
RECURSIVE FindFrom(_, _, _)
FindFrom(s, c, i) ==
    IF i > Len(s) THEN 0
    ELSE IF Char(s, i) = c THEN i
    ELSE FindFrom(s, c, i + 1)

Find(s, c) == FindFrom(s, c, 1)

\* Index of the last occurrence of character c in s, 0 when there is none.
RECURSIVE RFindFrom(_, _, _)
RFindFrom(s, c, i) ==
    IF i = 0 THEN 0
    ELSE IF Char(s, i) = c THEN i
    ELSE RFindFrom(s, c, i - 1)

RFind(s, c) == RFindFrom(s, c, Len(s))

Before(s, i) == SubSeq(s, 1, i - 1)
After(s, i) == SubSeq(s, i + 1, Len(s))

\* python's cmp(s, t) on str: -1, 0 or 1, byte-wise lexicographic.
RECURSIVE StrCmp(_, _)
StrCmp(s, t) ==
    IF Len(s) = 0 /\ Len(t) = 0 THEN 0
    ELSE IF Len(s) = 0 THEN -1
    ELSE IF Len(t) = 0 THEN 1
    ELSE IF Ord(Head(s)) < Ord(Head(t)) THEN -1
    ELSE IF Ord(Head(s)) > Ord(Head(t)) THEN 1
    ELSE StrCmp(Tail(s), Tail(t))

IsSpace(c) == c \in {" ", "\t"}

HasChar(s, c) == Find(s, c) # 0

\* x.count('/') > 0
HasSlash(s) == HasChar(s, "/")

\* str.rstrip(), str.lstrip(ch)
RECURSIVE RStrip(_)
RStrip(s) ==
    IF Len(s) > 0 /\ IsSpace(Char(s, Len(s)))
    THEN RStrip(SubSeq(s, 1, Len(s) - 1))
    ELSE s

RECURSIVE LStripChar(_, _)
LStripChar(s, c) ==
    IF Len(s) > 0 /\ Head(s) = c THEN LStripChar(Tail(s), c) ELSE s

Range(q) == {q[i] : i \in DOMAIN q}

(***************************************************************************)
(* The two tag grammars of POOL_NAMING_SORTERS                             *)
(***************************************************************************)

\* A parse gives [ok, val]; val is a pair ordered by ValLess, so that an
\* instant needs no number beyond 32 bits.
Failed == [ok |-> FALSE, val |-> <<0, 0>>]
Parsed(v) == [ok |-> TRUE, val |-> v]

ValLess(a, b) == a[1] < b[1] \/ (a[1] = b[1] /\ a[2] < b[2])

\* A strptime field: s is all digits, of one of the lengths the directive's
\* pattern takes, with a value the pattern allows.
Field(s, lens, lo, hi) ==
    IF Len(s) \in lens /\ AllDigits(s) /\ NumVal(s) >= lo /\ NumVal(s) <= hi
    THEN [ok |-> TRUE, val |-> NumVal(s)]
    ELSE [ok |-> FALSE, val |-> 0]

IsLeap(y) == (y % 4 = 0 /\ y % 100 # 0) \/ y % 400 = 0

DaysInMonth(y, m) ==
    IF m = 2 THEN (IF IsLeap(y) THEN 29 ELSE 28)
    ELSE IF m \in {4, 6, 9, 11} THEN 30
    ELSE 31

\* datetime.strptime(s, '%Y-%m-%d.%H:%M:%S'): the directives' patterns are
\* %Y \d\d\d\d, %m 1[0-2]|0[1-9]|[1-9], %d 3[01]|[12]\d|0[1-9]|[1-9],
\* %H 2[0-3]|[0-1]\d|\d, %M [0-5]\d|\d, %S 6[0-1]|[0-5]\d|\d; the whole string
\* must match, and datetime() then rejects a day past the month's end and a
\* second above 59.  The fields hold digits only and the separators are not
\* digits, so the match is found by cutting at each separator in turn.  A
\* parsed instant is a pair <<date, time of day>>, ordered as datetime is.
ParseTimestamp(s) ==
    LET i1 == Find(s, "-")
        r1 == After(s, i1)
        i2 == Find(r1, "-")
        r2 == After(r1, i2)
        i3 == Find(r2, ".")
        r3 == After(r2, i3)
        i4 == Find(r3, ":")
        r4 == After(r3, i4)
        i5 == Find(r4, ":")
        Y == Field(Before(s, i1), {4}, 0, 9999)
        M == Field(Before(r1, i2), {1, 2}, 1, 12)
        D == Field(Before(r2, i3), {1, 2}, 1, 31)
        h == Field(Before(r3, i4), {1, 2}, 0, 23)
        m == Field(Before(r4, i5), {1, 2}, 0, 59)
        sec == Field(After(r4, i5), {1, 2}, 0, 61)
    IN  IF i1 = 0 \/ i2 = 0 \/ i3 = 0 \/ i4 = 0 \/ i5 = 0 THEN Failed
        ELSE IF ~(Y.ok /\ M.ok /\ D.ok /\ h.ok /\ m.ok /\ sec.ok) THEN Failed
        ELSE IF Y.val < 1 \/ D.val > DaysInMonth(Y.val, M.val) \/ sec.val > 59
        THEN Failed
        ELSE Parsed(<<(Y.val * 13 + M.val) * 32 + D.val,
                      (h.val * 60 + m.val) * 60 + sec.val>>)

\* int(s): an optional sign and at least one decimal digit.
ParseInt(s) ==
    LET signed == Len(s) > 0 /\ Head(s) \in {"+", "-"}
        body == IF signed THEN Tail(s) ELSE s
    IN  IF Len(body) > 0 /\ AllDigits(body)
        THEN Parsed(<<IF signed /\ Head(s) = "-" THEN 0 - NumVal(body)
                      ELSE NumVal(body), 0>>)
        ELSE Failed

(***************************************************************************)
(* Bounds and the names the model draws from                               *)
(***************************************************************************)

\* Longest snapshot listing the external subsystem starts with.
MaxInit == 3
\* Longest snapshot listing the operations may grow it to.
MaxSnaps == 4

\* Datasets of the external subsystem: a pool's root filesystem, a child and
\* a grandchild of another pool.
Datasets == {"a", "a/x", "b/y/z"}

\* Snapshot tags: two integers whose numeric and lexicographic orders
\* differ, two timestamps, and a free-form tag that holds an '@'.
Tags == {"3", "10", "2020-03-01.00:00:00", "2020-01-01.00:00:00", "x@y"}

SnapshotNames == {d \o "@" \o t : d \in Datasets, t \in Tags}

RECURSIVE SeqsUpTo(_, _)
SeqsUpTo(S, n) ==
    IF n = 0 THEN {<<>>}
    ELSE LET shorter == SeqsUpTo(S, n - 1)
         IN  shorter \cup {Append(q, x) : q \in shorter, x \in S}

NoDuplicates(q) == \A i, j \in DOMAIN q : i # j => q[i] # q[j]

\* The dataset a snapshot of the external subsystem belongs to.
DatasetOf(name) == Before(name, Find(name, "@"))

\* The place of each snapshot's dataset among the datasets sorted by name,
\* tabulated once.
DatasetRank ==
    [n \in SnapshotNames |->
        Cardinality({d \in Datasets : StrCmp(d, DatasetOf(n)) < 0})]

\* The same of any snapshot name.
RankOf(name) ==
    IF name \in DOMAIN DatasetRank THEN DatasetRank[name]
    ELSE Cardinality({d \in Datasets : StrCmp(d, DatasetOf(name)) < 0})

\* The external subsystem lists snapshots dataset by dataset, the datasets
\* by name and a dataset's snapshots in the order of their creation.
Grouped(q) == \A i, j \in DOMAIN q : i < j => DatasetRank[q[i]] <= DatasetRank[q[j]]

Listings == {q \in SeqsUpTo(SnapshotNames, MaxInit) : NoDuplicates(q) /\ Grouped(q)}

\* The tags the listings of the model can hold, and their parses under the
\* two grammars, tabulated once.
ListedTags == {After(n, Find(n, "@")) : n \in SnapshotNames} \cup Tags

TimestampTable == [t \in ListedTags |-> ParseTimestamp(t)]

IntTable == [t \in ListedTags |-> ParseInt(t)]

\* The sorters, in the order the code tries them.
POOL_NAMING_SORTERS == <<"timestamp", "int">>

SorterParse(sorter, s) ==
    IF sorter = "timestamp"
    THEN (IF s \in ListedTags THEN TimestampTable[s] ELSE ParseTimestamp(s))
    ELSE (IF s \in ListedTags THEN IntTable[s] ELSE ParseInt(s))

\* cmp of two parsed values; ValueError when either did not parse.
CmpParsed(px, py) ==
    IF ~px.ok \/ ~py.ok THEN [raised |-> TRUE, lt |-> FALSE]
    ELSE [raised |-> FALSE, lt |-> ValLess(px.val, py.val)]

\* One call of a sorter: cmp of the parsed values, or ValueError when either
\* argument does not parse.
SorterCmp(sorter, x, y) == CmpParsed(SorterParse(sorter, x), SorterParse(sorter, y))

(***************************************************************************)
(* list.sort(cmp) of CPython 2 on a short list (fewer than 64 elements):   *)
(* count_run finds the leading run, a strictly descending run is reversed, *)
(* and binarysort inserts the remaining elements one by one.  When cmp     *)
(* raises, the sort stops and the list keeps the order reached so far.     *)
(* A sort result is [raised, list].                                        *)
(***************************************************************************)

Reverse(q) == [i \in 1..Len(q) |-> q[Len(q) + 1 - i]]

\* count_run: the length of the leading run, q[1..n] being part of it and c
\* the comparison of q[n+1] with q[n]; descending runs are strict.
RECURSIVE Run(_, _, _, _)
RunStep(sorter, q, n, descending, c) ==
    IF c.raised THEN [raised |-> TRUE, n |-> n]
    ELSE IF c.lt # descending THEN [raised |-> FALSE, n |-> n]
    ELSE Run(sorter, q, n + 1, descending)

Run(sorter, q, n, descending) ==
    IF n = Len(q) THEN [raised |-> FALSE, n |-> n]
    ELSE RunStep(sorter, q, n, descending, SorterCmp(sorter, q[n + 1], q[n]))

\* binarysort's search for the place of pivot in q[l+1 .. r] (0-based l, r),
\* p being the middle and c the comparison of pivot with q[p+1].
RECURSIVE BinarySearch(_, _, _, _, _)
BinarySearchStep(sorter, q, pivot, l, r, p, c) ==
    IF c.raised THEN [raised |-> TRUE, at |-> l]
    ELSE IF c.lt THEN BinarySearch(sorter, q, pivot, l, p)
    ELSE BinarySearch(sorter, q, pivot, p + 1, r)

BinarySearch(sorter, q, pivot, l, r) ==
    IF l >= r THEN [raised |-> FALSE, at |-> l]
    ELSE BinarySearchStep(sorter, q, pivot, l, r, l + ((r - l) \div 2),
                          SorterCmp(sorter, pivot, q[l + ((r - l) \div 2) + 1]))

\* binarysort: q[1..start] is sorted; insert q[start+1], q[start+2], ...,
\* f being the place found for q[start+1].
RECURSIVE BinarySort(_, _, _)
BinaryInsert(sorter, q, start, f) ==
    IF f.raised THEN [raised |-> TRUE, list |-> q]
    ELSE BinarySort(sorter,
            SubSeq(q, 1, f.at) \o <<q[start + 1]>> \o SubSeq(q, f.at + 1, start)
                \o SubSeq(q, start + 2, Len(q)),
            start + 1)

BinarySort(sorter, q, start) ==
    IF start >= Len(q) THEN [raised |-> FALSE, list |-> q]
    ELSE BinaryInsert(sorter, q, start, BinarySearch(sorter, q, q[start + 1], 0, start))

\* The sort once the leading run is known: a descending run is reversed.
SortFromRun(sorter, q, descending, run) ==
    IF run.raised THEN [raised |-> TRUE, list |-> q]
    ELSE BinarySort(sorter,
            IF descending
            THEN Reverse(SubSeq(q, 1, run.n)) \o SubSeq(q, run.n + 1, Len(q))
            ELSE q,
            run.n)

\* The sort once q[2] is compared with q[1].
SortFromFirst(sorter, q, first) ==
    IF first.raised THEN [raised |-> TRUE, list |-> q]
    ELSE SortFromRun(sorter, q, first.lt, Run(sorter, q, 2, first.lt))

ListSort(sorter, q) ==
    IF Len(q) < 2 THEN [raised |-> FALSE, list |-> q]
    ELSE SortFromFirst(sorter, q, SorterCmp(sorter, q[2], q[1]))

(***************************************************************************)
(* check_cmd_output and the external subsystem                             *)
(***************************************************************************)

\* check_cmd_output's last line: the output's lines, right-stripped, without
\* the blank ones.
OutputLines(raw) ==
    LET kept == SelectSeq(raw, LAMBDA x : RStrip(x) # "")
    IN  [i \in 1..Len(kept) |-> RStrip(kept[i])]

\* What `zfs list -Ht snapshot` prints: one line per snapshot, the name and
\* four more tab-separated columns, and a final newline.
ZfsListSnapshots(snaps) ==
    [i \in 1..Len(snaps) |-> snaps[i] \o "\t0\t-\t31K\t-"] \o <<"">>

\* x.split('\t')[0]
FirstColumn(line) ==
    IF Find(line, "\t") = 0 THEN line ELSE Before(line, Find(line, "\t"))

\* `zfs snapshot name` on the external subsystem: nonzero exit when the
\* snapshot exists, else the snapshot becomes the newest of its dataset.
ZfsSnapshot(snaps, name) ==
    IF name \in Range(snaps) THEN [ok |-> FALSE, snaps |-> snaps]
    ELSE [ok |-> TRUE,
          snaps |->
            SelectSeq(snaps, LAMBDA x : RankOf(x) <= RankOf(name))
            \o <<name>>
            \o SelectSeq(snaps, LAMBDA x : RankOf(x) > RankOf(name))]

(***************************************************************************)
(* ZFSSnapshots.reload                                                     *)
(***************************************************************************)

EmptyDict == [k \in {} |-> <<>>]

Keys(d) == DOMAIN d

DictSet(d, k, v) == [x \in Keys(d) \cup {k} |-> IF x = k THEN v ELSE d[x]]

\* SplitEntry with the entry cut at its last '@' (entry.rsplit('@',1)).
SplitEntryAtLast(entry) ==
    LET at == RFind(entry, "@")
        volume == Before(entry, at)
        slash == Find(volume, "/")
    IN  IF at = 0 THEN [ok |-> FALSE, pool |-> "", volume |-> "", tag |-> ""]
        ELSE [ok |-> TRUE,
              pool |-> IF slash = 0 THEN volume ELSE Before(volume, slash),
              volume |-> IF slash = 0 THEN volume ELSE After(volume, slash),
              tag |-> After(entry, at)]

\* entry.split('@',1) and volume.split('/',1): the tag is what follows the
\* first '@'; the pool is what precedes the first '/' of the rest, the whole
\* of it when it has no '/'.
SplitEntry(entry) ==
    LET at == Find(entry, "@")
        volume == Before(entry, at)
        slash == Find(volume, "/")
    IN  IF at = 0 THEN [ok |-> FALSE, pool |-> "", volume |-> "", tag |-> ""]
        ELSE [ok |-> TRUE,
              pool |-> IF slash = 0 THEN volume ELSE Before(volume, slash),
              volume |-> IF slash = 0 THEN volume ELSE After(volume, slash),
              tag |-> After(entry, at)]

\* self[pool][volume].append(snapshot), creating the two levels as needed.
AddSnapshot(cat, pool, volume, tag) ==
    LET inPool == IF pool \in Keys(cat) THEN cat[pool] ELSE EmptyDict
        tags == IF volume \in Keys(inPool) THEN inPool[volume] ELSE <<>>
    IN  DictSet(cat, pool, DictSet(inPool, volume, Append(tags, tag)))

\* The first loop of reload, from entry i on: [err, cat].
RECURSIVE ParseEntries(_, _, _)
ParseEntries(entries, i, cat) ==
    IF i > Len(entries) THEN [err |-> "none", cat |-> cat]
    ELSE IF RStrip(entries[i]) = "" THEN ParseEntries(entries, i + 1, cat)
    ELSE LET e == SplitEntry(entries[i])
         IN  IF ~e.ok
             THEN [err |-> "Error parsing zfs snapshot output", cat |-> cat]
             ELSE ParseEntries(entries, i + 1,
                               AddSnapshot(cat, e.pool, e.volume, e.tag))

\* The sorters tried in turn on one group, from sorter k on.  A sorter that
\* raises leaves the list as far as the sort got; the next one starts there.
RECURSIVE TrySorters(_, _)
AfterSorter(k, r) ==
    IF ~r.raised THEN [sorted |-> TRUE, list |-> r.list]
    ELSE TrySorters(r.list, k + 1)

TrySorters(tags, k) ==
    IF k > Len(POOL_NAMING_SORTERS) THEN [sorted |-> FALSE, list |-> tags]
    ELSE AfterSorter(k, ListSort(POOL_NAMING_SORTERS[k], tags))

\* The second loop of reload over the groups in the order the dictionaries
\* yield them, from group i on: the `return` after the first sort that does
\* not raise ends reload.
RECURSIVE SortGroups(_, _, _)
AfterGroup(cat, order, i, sorted) ==
    IF sorted THEN cat ELSE SortGroups(cat, order, i + 1)

SortGroup(cat, order, i, r) ==
    AfterGroup([cat EXCEPT ![order[i][1]][order[i][2]] = r.list], order, i, r.sorted)

SortGroups(cat, order, i) ==
    IF i > Len(order) THEN cat
    ELSE SortGroup(cat, order, i, TrySorters(cat[order[i][1]][order[i][2]], 1))

Groups(cat) == UNION {{<<p, v>> : v \in Keys(cat[p])} : p \in Keys(cat)}

\* The orders in which `for pool in self.keys(): for volume in
\* self[pool].keys()` may visit the groups: keys() of a dict comes in no
\* promised order, but a pool's volumes are visited together.
GroupOrders(cat) ==
    {o \in [1..Cardinality(Groups(cat)) -> Groups(cat)] :
        /\ \A i, j \in DOMAIN o : i # j => o[i] # o[j]
        /\ \A i, j, k \in DOMAIN o :
              (i < j /\ j < k /\ o[i][1] = o[k][1]) => o[j][1] = o[i][1]}

\* reload() as a whole, with the groups visited in `order`.
ReloadParse(snaps) ==
    LET lines == OutputLines(ZfsListSnapshots(snaps))
    IN  ParseEntries([i \in 1..Len(lines) |-> FirstColumn(lines[i])], 1, EmptyDict)

ReloadSort(parsed, order) ==
    IF parsed.err # "none" THEN parsed
    ELSE [err |-> "none", cat |-> SortGroups(parsed.cat, order, 1)]

\* The outcomes reload() may have on a listing: one per order of the groups.
ReloadOutcomes(parsed) ==
    {ReloadSort(parsed, order) : order \in GroupOrders(parsed.cat)}

\* A reload that leaves the catalog as it was.
ReloadSkipped(snaps) == {[err |-> "none", cat |-> catalog]}

ReloadResults(snaps) == ReloadOutcomes(ReloadParse(snaps))

ListCmd == <<"zfs", "list", "-Ht", "snapshot">>

NoOp == [op |-> "none", had |-> FALSE]

CatInit ==
    /\ extSnaps \in Listings
    /\ catalog = EmptyDict
    /\ catErr = "none"
    /\ catOp = NoOp
    /\ catCmds = <<>>

Reload ==
    /\ \E r \in ReloadResults(extSnaps) :
          /\ catalog' = r.cat
          /\ catErr' = r.err
    /\ catOp' = [NoOp EXCEPT !.op = "reload"]
    /\ catCmds' = <<ListCmd>>
    /\ UNCHANGED extSnaps

(***************************************************************************)
(* ZFSVolume: snapshots read from the catalog                              *)
(***************************************************************************)

\* The pool a dataset of the external subsystem lives in.
PoolOf(dataset) ==
    IF Find(dataset, "/") = 0 THEN dataset ELSE Before(dataset, Find(dataset, "/"))

\* ZFSVolume.__init__: the name is the volume without its pool.
VolumeName(poolName, volume) ==
    IF poolName # volume
    THEN LStripChar(SubSeq(volume, Len(poolName) + 1, Len(volume)), "/")
    ELSE volume

\* ZFSVolume.snapshots over ZFSPool.snapshots: a missing key gives no
\* snapshots.
VolumeSnapshots(cat, poolName, name) ==
    LET poolSnapshots == IF poolName \in Keys(cat) THEN cat[poolName] ELSE EmptyDict
    IN  IF name \in Keys(poolSnapshots) THEN poolSnapshots[name] ELSE <<>>

SnapshotCmd(name) == <<"zfs", "snapshot", name>>

\* ZFSVolume.create_snapshot(tag): the external command first; a nonzero
\* exit raises, otherwise the catalog is reloaded.
VolumeCreateSnapshot(volume, tag) ==
    LET name == volume \o "@" \o tag
        ext == ZfsSnapshot(extSnaps, name)
        had == tag \in Range(VolumeSnapshots(catalog, PoolOf(volume),
                                             VolumeName(PoolOf(volume), volume)))
    IN  /\ catOp' = [op |-> "ZFSVolume.create_snapshot", had |-> had]
        /\ IF ~ext.ok
           THEN /\ catErr' = "Error creating snapshot"
                /\ catCmds' = <<SnapshotCmd(name)>>
                /\ UNCHANGED <<extSnaps, catalog>>
           ELSE /\ extSnaps' = ext.snaps
                /\ catCmds' = <<SnapshotCmd(name), ListCmd>>
                /\ \E r \in ReloadResults(ext.snaps) :
                      /\ catalog' = r.cat
                      /\ catErr' = r.err

VolumeCreate ==
    \E volume \in Datasets, tag \in Tags :
        /\ Len(extSnaps) < MaxSnaps \/ (volume \o "@" \o tag) \in Range(extSnaps)
        /\ VolumeCreateSnapshot(volume, tag)

(***************************************************************************)
(* ZFS (ultimatum/zfs/zfs.py): snapshots read from the external subsystem  *)
(* at every call.  execute and ZFSSnapshot are imported from modules that  *)
(* are not part of the sources at hand.                                    *)
(***************************************************************************)

StartsWith(s, prefix) ==
    Len(s) >= Len(prefix) /\ SubSeq(s, 1, Len(prefix)) = prefix

\* What `zfs list -Hrt snapshot -o name NAME` prints: the snapshots of the
\* dataset and of the datasets below it.
ZfsListSnapshotsOf(snaps, name) ==
    SelectSeq(snaps, LAMBDA x : StartsWith(x, name \o "@") \/ StartsWith(x, name \o "/"))
        \o <<"">>

\* ZFSSnapshot(name).volume: the name up to its last '@'.
SnapshotVolume(name) == Before(name, RFind(name, "@"))

\* ZFSSnapshot(name).tag: what follows the last '@'.
SnapshotTag(name) == After(name, RFind(name, "@"))

\* ZFS.snapshots: the listed snapshots whose volume is this filesystem.
FsSnapshots(snaps, name) ==
    SelectSeq(SelectSeq(ZfsListSnapshotsOf(snaps, name), LAMBDA x : x # ""),
              LAMBDA x : SnapshotVolume(x) = name)

FsListCmd(name) == <<"zfs", "list", "-Hrt", "snapshot", "-o", "name", name>>

\* The timestamps datetime.now().strftime(SNAPSHOT_DATE_FORMAT) may give.
Clock == {t \in Tags : ParseTimestamp(t).ok}

\* ZFS.create_snapshot(tag): the tag is checked against the filesystem's
\* snapshots before the external command is issued; the tag is returned.
FsCreateSnapshot(fs, tag) ==
    LET name == fs \o "@" \o tag
        had == name \in Range(FsSnapshots(extSnaps, fs))
        ext == ZfsSnapshot(extSnaps, name)
    IN  /\ catOp' = [op |-> "ZFS.create_snapshot", had |-> had]
        /\ UNCHANGED catalog
        /\ IF had
           THEN /\ catErr' = "Snapshot already exists"
                /\ catCmds' = <<FsListCmd(fs)>>
                /\ UNCHANGED extSnaps
           ELSE /\ catCmds' = <<FsListCmd(fs), SnapshotCmd(name)>>
                /\ extSnaps' = ext.snaps
                /\ catErr' = IF ext.ok THEN "none" ELSE "CommandExecutionFailed"

\* tag=None takes the tag from the clock.
FsCreate ==
    \E fs \in Datasets, given \in BOOLEAN, tag \in Tags :
        /\ given \/ tag \in Clock
        /\ Len(extSnaps) < MaxSnaps \/ (fs \o "@" \o tag) \in Range(extSnaps)
        /\ FsCreateSnapshot(fs, tag)

\* What a snapshot operation returned: nothing, a tag, a list of snapshot
\* names, or an exit status.
RetNone == [kind |-> "None", tag |-> "", list |-> <<>>, status |-> 0]
RetTag(tag) == [RetNone EXCEPT !.kind = "tag", !.tag = tag]
RetList(list) == [RetNone EXCEPT !.kind = "list", !.list = list]
RetStatus(status) == [RetNone EXCEPT !.kind = "status", !.status = status]

NoPipeline == [state |-> "none", src |-> <<>>, dst |-> <<>>, srcStatus |-> 0, dstStatus |-> 0]

Callers == {1, 2}

NoCallers == [c \in Callers |-> [pc |-> "idle", fs |-> "", tag |-> "", err |-> "none", cmds |-> <<>>]]

\* The dates filter_snapshots is called with: the instants of two listed
\* tags, one between them, and a text that is no date.
FilterDates ==
    {"2020-01-01.00:00:00", "2020-02-01.00:00:00", "2020-03-01.00:00:00", "10"}

DateTable == [t \in Tags \cup FilterDates |-> ParseTimestamp(t)]

\* datetime.strptime(s, SNAPSHOT_DATE_FORMAT), the format being the
\* timestamp grammar '%Y-%m-%d.%H:%M:%S'.
Strptime(s) == IF s \in DOMAIN DateTable THEN DateTable[s] ELSE ParseTimestamp(s)

\* The range taken without its bounds.
InDateRangeExclusive(d, start, stop) ==
    d.ok /\ ValLess(start.val, d.val) /\ ValLess(d.val, stop.val)

\* ss_date >= start and ss_date <= stop, for a tag that parsed.
InDateRange(d, start, stop) ==
    d.ok /\ ~ValLess(d.val, start.val) /\ ~ValLess(stop.val, d.val)

\* ZFS.filter_snapshots once start and stop are parsed: [err, list, cmds].
FilterParsed(snaps, fs, start, stop) ==
    IF ~start.ok \/ ~stop.ok
    THEN [err |-> "Filter dates do not match default date format",
          list |-> <<>>, cmds |-> <<>>]
    ELSE IF ValLess(stop.val, start.val)
    THEN [err |-> "Invalid date range: start is after stop",
          list |-> <<>>, cmds |-> <<>>]
    ELSE [err |-> "none",
          list |-> SelectSeq(FsSnapshots(snaps, fs),
                             LAMBDA x : InDateRange(Strptime(SnapshotTag(x)), start, stop)),
          cmds |-> <<FsListCmd(fs)>>]

\* ZFS.filter_snapshots(start, stop) with start and stop given as text.
FilterSnapshots(snaps, fs, start, stop) ==
    FilterParsed(snaps, fs, Strptime(start), Strptime(stop))

FilterOutcome(fs, start, stop, r) ==
    /\ catOp' = [op |-> "ZFS.filter_snapshots", had |-> FALSE, fs |-> fs,
                 start |-> start, stop |-> stop]
    /\ catErr' = r.err
    /\ catCmds' = r.cmds
    /\ fsRet' = IF r.err = "none" THEN RetList(r.list) ELSE RetNone
    /\ UNCHANGED <<extSnaps, catalog, pipeline, callers>>

FsFilter ==
    \E fs \in Datasets, start \in FilterDates, stop \in FilterDates :
        FilterOutcome(fs, start, stop, FilterSnapshots(extSnaps, fs, start, stop))

(***************************************************************************)
(* ZFS.clone_to_pool: a snapshot is created, then `zfs send` is started    *)
(* with its output piped into `zfs receive`, and the call waits for the    *)
(* receiving process.                                                      *)
(***************************************************************************)

\* The pool cloned to.
TargetPool == "backups"

\* Exit statuses of the two processes.
ExitStatuses == {0, 1}

\* '%s' % tag: a tag that was not given is None.
TagText(given, tag) == IF given THEN tag ELSE "None"

\* src_args: incremental from the last of the snapshots the filesystem has,
\* full when it has none; the snapshot sent is named by the tag argument.
SendArgs(snapshots, fs, tagText) ==
    IF Len(snapshots) > 0
    THEN <<"zfs", "send", "-i", snapshots[Len(snapshots)], fs \o "@" \o tagText>>
    ELSE <<"zfs", "send", fs \o "@" \o tagText>>

\* dst_args
ReceiveArgs(force) ==
    IF force THEN <<"zfs", "receive", "-Fd", TargetPool>>
    ELSE <<"zfs", "receive", "-d", TargetPool>>

\* The new snapshot taken back when the receiving process failed.
AfterPipelineRolledBack(snaps, name, dstStatus) ==
    IF dstStatus = 0 THEN snaps ELSE SelectSeq(snaps, LAMBDA x : x # name)

\* The snapshots of the external subsystem once the pipeline has ended:
\* clone_to_pool issues no command after it.
AfterPipeline(snaps, name, dstStatus) == snaps

\* clone_to_pool up to the start of the two processes, snapshots being the
\* filesystem's snapshots, created the tag create_snapshot uses and ext the
\* outcome of `zfs snapshot`.
CloneLaunch(fs, given, tag, force, snapshots, created, ext) ==
    /\ catOp' = [op |-> "ZFS.clone_to_pool",
                 had |-> (fs \o "@" \o created) \in Range(snapshots),
                 fs |-> fs, tag |-> created, given |-> given]
    /\ fsRet' = RetNone
    /\ UNCHANGED <<catalog, callers>>
    /\ IF (fs \o "@" \o created) \in Range(snapshots)
       THEN /\ catErr' = "Snapshot already exists"
            /\ catCmds' = <<FsListCmd(fs), FsListCmd(fs)>>
            /\ pipeline' = NoPipeline
            /\ UNCHANGED extSnaps
       ELSE IF ~ext.ok
       THEN /\ catErr' = "CommandExecutionFailed"
            /\ catCmds' = <<FsListCmd(fs), FsListCmd(fs), SnapshotCmd(fs \o "@" \o created)>>
            /\ pipeline' = NoPipeline
            /\ UNCHANGED extSnaps
       ELSE /\ catErr' = "none"
            /\ catCmds' = <<FsListCmd(fs), FsListCmd(fs), SnapshotCmd(fs \o "@" \o created)>>
            /\ extSnaps' = ext.snaps
            /\ pipeline' = [NoPipeline EXCEPT
                               !.state = "running",
                               !.src = SendArgs(snapshots, fs, TagText(given, tag)),
                               !.dst = ReceiveArgs(force)]

\* A call of clone_to_pool(pool, tag, force); the tag may be None, and
\* create_snapshot then takes it from the clock.
CloneStart ==
    \E fs \in Datasets, given \in BOOLEAN, tag \in Tags, force \in BOOLEAN :
        /\ pipeline.state # "running"
        /\ given \/ tag \in Clock
        /\ Len(extSnaps) < MaxInit \/ (fs \o "@" \o tag) \in Range(extSnaps)
        /\ CloneLaunch(fs, given, tag, force, FsSnapshots(extSnaps, fs), tag,
                       ZfsSnapshot(extSnaps, fs \o "@" \o tag))

\* dst.communicate() returns when the receiving process has ended; the
\* function ends there and so returns None.
CloneWait ==
    /\ pipeline.state = "running"
    /\ catOp.op = "ZFS.clone_to_pool"
    /\ \E srcStatus \in ExitStatuses, dstStatus \in ExitStatuses :
          /\ pipeline' = [pipeline EXCEPT !.state = "done", !.srcStatus = srcStatus,
                                          !.dstStatus = dstStatus]
          /\ extSnaps' = AfterPipeline(extSnaps, catOp.fs \o "@" \o catOp.tag, dstStatus)
    /\ fsRet' = RetNone
    /\ UNCHANGED <<catalog, catErr, catOp, catCmds, callers>>

(***************************************************************************)
(* ZFSPool (ultimatum/zfs.py) and ZPool.is_available (ultimatum/zfs/zpool) *)
(***************************************************************************)

\* Most datasets the external subsystem lists for the pool.
MaxVols == 3

PoolName == "t"

\* The pool's datasets: its root, two children and a grandchild.
PoolDatasets == {"t", "t/x", "t/a", "t/t/x"}

\* Names create_volume is called with.
VolumeNames == {"x", "a", "t/x"}

VolListings == {q \in SeqsUpTo(PoolDatasets, MaxVols) : NoDuplicates(q)}

Mountpoint(volume) == IF volume = PoolName THEN "none" ELSE "/" \o volume

\* What `zfs list -Hd2 POOL` prints: name, used, avail, refer, mountpoint.
ZfsListVolumes(listing) ==
    [i \in 1..Len(listing) |->
        listing[i] \o "\t1K\t2K\t3K\t" \o Mountpoint(listing[i])] \o <<"">>

\* l.split('\t')
RECURSIVE SplitTabs(_)
SplitTabs(line) ==
    IF Find(line, "\t") = 0 THEN <<line>>
    ELSE <<Before(line, Find(line, "\t"))>> \o SplitTabs(After(line, Find(line, "\t")))

\* ZFSVolume(pool, volume, mountpoint)
ZFSVolume(volume, mountpoint) ==
    [volume |-> volume,
     name |-> VolumeName(PoolName, volume),
     mountpoint |-> IF mountpoint # "none" THEN mountpoint ELSE "None"]

\* ZFSVolume.__cmp__ against another volume of the same pool: cmp of the
\* full names.
VolumeCmp(v, w) == StrCmp(v.volume, w.volume)

\* ZFSVolume.__cmp__ against a string: cmp of the volume's name, the one
\* without the pool, and the string.
VolumeCmpStr(v, str) == StrCmp(v.name, str)

\* SortVolumes with the call of sort() left out.
SortVolumesSkipped(q) == q

\* list.sort() with __cmp__: the comparison never raises and the listed
\* names are distinct, so the result is the one sorted arrangement.
RECURSIVE SortVolumes(_)
SortVolumes(q) ==
    IF Len(q) = 0 THEN <<>>
    ELSE LET rest == SortVolumes(Tail(q))
             before == SelectSeq(rest, LAMBDA w : VolumeCmp(w, Head(q)) <= 0)
             after == SelectSeq(rest, LAMBDA w : VolumeCmp(w, Head(q)) > 0)
         IN  before \o <<Head(q)>> \o after

PoolListCmd == <<"zpool", "list", PoolName>>
PoolImportCmd == <<"zpool", "import", PoolName>>
PoolExportCmd == <<"zpool", "export", PoolName>>
VolListCmd == <<"zfs", "list", "-Hd2", PoolName>>
VolCreateCmd(volume) == <<"zfs", "create", volume>>

\* ZFSPool.available: check_cmd_output turns the nonzero exit of `zpool
\* list NAME` into ZFSError, which the handler for CalledProcessError does
\* not catch.
Available(imp) ==
    IF imp THEN [err |-> "none", ret |-> "True"]
    ELSE [err |-> "Error running command zpool list", ret |-> "None"]

\* ZFSPool.import_pool; ok is the exit status of `zpool import NAME`.
ImportPool(ok) ==
    IF ok THEN [err |-> "none", imported |-> TRUE]
    ELSE [err |-> "Error importing pool", imported |-> FALSE]

\* ZFSPool.load: the list is emptied, the pool is queried, and the volumes
\* listed are appended and sorted.
Load(imp, listing) ==
    IF ~imp
    THEN [err |-> "pool does not exist", vols |-> <<>>, cmds |-> <<PoolListCmd>>]
    ELSE LET lines == OutputLines(ZfsListVolumes(listing))
             made == [i \in 1..Len(lines) |->
                        ZFSVolume(SplitTabs(lines[i])[1], SplitTabs(lines[i])[5])]
         IN  [err |-> "none", vols |-> SortVolumes(made),
              cmds |-> <<PoolListCmd, VolListCmd>>]

\* ZFSPool.get_volume
GetVolume(list, name) ==
    IF \E i \in DOMAIN list : list[i].name = name
    THEN [err |-> "none",
          ret |-> list[CHOOSE i \in DOMAIN list :
                          /\ list[i].name = name
                          /\ \A j \in 1..(i - 1) : list[j].name # name].volume]
    ELSE [err |-> "Volume not found in pool", ret |-> "None"]

\* `zfs create volume` on the external subsystem: nonzero exit when the
\* pool is not imported or the dataset exists.
ZfsCreate(imp, listing, volume) ==
    IF ~imp \/ volume \in Range(listing) THEN [ok |-> FALSE, extVols |-> listing]
    ELSE [ok |-> TRUE, extVols |-> Append(listing, volume)]

\* What `zpool list -H` prints: a line for each imported pool; pool "u" is
\* always there.
ZpoolList(imp) ==
    (IF imp THEN <<PoolName \o "\t10G\t1G\t9G\t10%\t1.00x\tONLINE\t-">> ELSE <<>>)
        \o <<"u\t10G\t1G\t9G\t10%\t1.00x\tONLINE\t-", "">>

\* line.split()[0]: the line up to its first blank.
RECURSIVE FirstToken(_)
FirstToken(line) ==
    IF Len(line) = 0 \/ IsSpace(Head(line)) THEN ""
    ELSE Head(line) \o FirstToken(Tail(line))

\* poolnames() of ultimatum/zfs/zpool.py
PoolNames(imp) ==
    LET lines == OutputLines(ZpoolList(imp))
    IN  [i \in 1..Len(lines) |-> FirstToken(lines[i])]

\* ZPool.is_available
IsAvailable(imp) == IF PoolName \notin Range(PoolNames(imp)) THEN "False" ELSE "True"

NoPoolOp == [op |-> "none", arg |-> "", wasImported |-> FALSE, had |-> FALSE]

PoolOp(op, arg) ==
    [op |-> op, arg |-> arg, wasImported |-> imported,
     had |-> \E i \in DOMAIN vols : vols[i].volume = PoolName \o "/" \o arg]

PoolInit ==
    /\ imported \in BOOLEAN
    /\ extVols \in VolListings
    /\ constructed = FALSE
    /\ vols = <<>>
    /\ poolOp = NoPoolOp
    /\ poolErr = "none"
    /\ poolRet = "None"
    /\ poolCmds = <<>>

\* ZFSPool.__init__: import the pool when it is not available, then load.
\* importOk is the exit status `zpool import` would have.
Construct ==
    /\ ~constructed
    /\ \E importOk \in BOOLEAN :
          LET a == Available(imported)
              doImport == a.err = "none" /\ a.ret = "False"
              i == IF doImport THEN ImportPool(importOk /\ ~imported)
                   ELSE [err |-> "none", imported |-> imported]
              l == Load(i.imported, extVols)
              importCmds == IF doImport THEN <<PoolImportCmd>> ELSE <<>>
          IN  /\ poolOp' = PoolOp("__init__", "")
              /\ poolRet' = "None"
              /\ UNCHANGED extVols
              /\ IF a.err # "none"
                 THEN /\ poolErr' = a.err
                      /\ poolCmds' = <<PoolListCmd>>
                      /\ UNCHANGED <<imported, constructed, vols>>
                 ELSE IF i.err # "none"
                 THEN /\ poolErr' = i.err
                      /\ poolCmds' = <<PoolListCmd>> \o importCmds
                      /\ UNCHANGED <<imported, constructed, vols>>
                 ELSE /\ imported' = i.imported
                      /\ poolErr' = l.err
                      /\ poolCmds' = <<PoolListCmd>> \o importCmds \o l.cmds
                      /\ constructed' = (l.err = "none")
                      /\ vols' = IF l.err = "none" THEN l.vols ELSE vols

AvailableCall ==
    /\ constructed
    /\ poolOp' = PoolOp("available", "")
    /\ poolErr' = Available(imported).err
    /\ poolRet' = Available(imported).ret
    /\ poolCmds' = <<PoolListCmd>>
    /\ UNCHANGED <<imported, extVols, constructed, vols>>

\* ZPool(name).is_available of ultimatum/zfs/zpool.py, on the same pool.
IsAvailableCall ==
    /\ poolOp' = PoolOp("is_available", "")
    /\ poolErr' = "none"
    /\ poolRet' = IsAvailable(imported)
    /\ poolCmds' = <<<<"zpool", "list", "-H">>>>
    /\ UNCHANGED <<imported, extVols, constructed, vols>>

ImportCall ==
    /\ constructed
    /\ \E importOk \in BOOLEAN :
          LET i == ImportPool(importOk /\ ~imported)
          IN  /\ poolErr' = i.err
              /\ imported' = (imported \/ i.imported)
    /\ poolOp' = PoolOp("import_pool", "")
    /\ poolRet' = "None"
    /\ poolCmds' = <<PoolImportCmd>>
    /\ UNCHANGED <<extVols, constructed, vols>>

\* ZFSPool.export_pool: the list of volumes is left as it is.
ExportCall ==
    /\ constructed
    /\ \E exportOk \in BOOLEAN :
          IF exportOk /\ imported
          THEN poolErr' = "none" /\ imported' = FALSE
          ELSE poolErr' = "Error importing pool" /\ UNCHANGED imported
    /\ poolOp' = PoolOp("export_pool", "")
    /\ poolRet' = "None"
    /\ poolCmds' = <<PoolExportCmd>>
    /\ UNCHANGED <<extVols, constructed, vols>>

LoadCall ==
    /\ constructed
    /\ LET l == Load(imported, extVols)
       IN  /\ poolErr' = l.err
           /\ vols' = l.vols
           /\ poolCmds' = l.cmds
    /\ poolOp' = PoolOp("load", "")
    /\ poolRet' = "None"
    /\ UNCHANGED <<imported, extVols, constructed>>

\* ZFSPool.create_volume(name)
CreateVolume(name) ==
    LET volume == PoolName \o "/" \o name
        c == ZfsCreate(imported, extVols, volume)
        l == Load(imported, c.extVols)
        g == GetVolume(l.vols, name)
    IN  /\ poolOp' = PoolOp("create_volume", name)
        /\ UNCHANGED <<imported, constructed>>
        /\ IF \E i \in DOMAIN vols : VolumeCmpStr(vols[i], volume) = 0
           THEN /\ poolErr' = "Attempt to create existing volume"
                /\ poolRet' = "None"
                /\ poolCmds' = <<>>
                /\ UNCHANGED <<extVols, vols>>
           ELSE IF ~c.ok
           THEN /\ poolErr' = "Error creating volume"
                /\ poolRet' = "None"
                /\ poolCmds' = <<VolCreateCmd(volume)>>
                /\ UNCHANGED <<extVols, vols>>
           ELSE /\ extVols' = c.extVols
                /\ vols' = l.vols
                /\ poolCmds' = <<VolCreateCmd(volume)>> \o l.cmds
                /\ poolErr' = IF l.err # "none" THEN l.err ELSE g.err
                /\ poolRet' = IF l.err # "none" THEN "None" ELSE g.ret

CreateVolumeCall ==
    /\ constructed
    /\ \E name \in VolumeNames :
          /\ \/ Len(extVols) < MaxVols
             \/ ~imported
             \/ (PoolName \o "/" \o name) \in Range(extVols)
          /\ CreateVolume(name)

\* Another actor imports or exports the pool, creates or destroys a dataset.
External ==
    /\ \/ imported' = ~imported /\ UNCHANGED extVols
       \/ /\ \E d \in PoolDatasets \ Range(extVols) :
                /\ Len(extVols) < MaxVols
                /\ extVols' = Append(extVols, d)
          /\ UNCHANGED imported
       \/ /\ \E i \in DOMAIN extVols :
                extVols' = SubSeq(extVols, 1, i - 1) \o SubSeq(extVols, i + 1, Len(extVols))
          /\ UNCHANGED imported
    /\ poolOp' = [NoPoolOp EXCEPT !.op = "external"]
    /\ poolErr' = "none"
    /\ poolRet' = "None"
    /\ poolCmds' = <<>>
    /\ UNCHANGED <<constructed, vols>>

(***************************************************************************)
(* Properties: ZFS.get_property / set_property (ultimatum/zfs/zfs.py) and  *)
(* ZPool.get_property / set_property (ultimatum/zfs/zpool.py)              *)
(***************************************************************************)

ZFS_BOOLEAN_PROPERTIES ==
    {"atime", "checksum", "canmount", "dedup", "devices", "exec", "jailed",
     "mounted", "nbmand", "readonly", "setuid", "sharenfs", "sharesmb", "type",
     "utf8only", "vscan", "xattr"}

ZFS_READONLY_PROPERTIES ==
    {"available", "creation", "refcompressratio", "referenced", "type", "used",
     "usedbychildren", "usedbydataset", "usedbyrefreservation",
     "usedbysnapshots", "written"}

ZFS_STRING_PROPERTIES ==
    {"aclinherit", "aclmode", "casesensitivity", "compressratio", "copies",
     "logbias", "mlslabel", "mountpoint", "normalization", "primarycache",
     "quota", "recordsize", "refquota", "refreservation", "reservation",
     "secondarycache", "snapdir", "sync", "version"}

ZFS_PROPERTIES ==
    ZFS_BOOLEAN_PROPERTIES \cup ZFS_READONLY_PROPERTIES \cup ZFS_STRING_PROPERTIES

ZPOOL_READONLY_PROPERTIES ==
    {"allocated", "capacity", "dedupratio", "expandsize", "free", "guid",
     "health", "size", "readonly"}

ZPOOL_BOOLEAN_PROPERTIES ==
    {"autoexpand", "autoreplace", "delegation", "listsnapshots", "readonly"}

ZPOOL_STRING_PROPERTIES ==
    {"altroot", "bootfs", "cachefile", "comment", "dedupditto", "failmode",
     "version"}

ZPOOL_OPTIONAL_PROPERTIES ==
    {"altroot", "bootfs", "cachefile", "comment", "expandsize"}

ZPOOL_HEALTH_STATES ==
    {"DEGRADED", "FAULTED", "OFFLINE", "ONLINE", "REMOVED", "UNAVAIL"}

ZPOOL_PROPERTIES ==
    ZPOOL_READONLY_PROPERTIES \cup ZPOOL_BOOLEAN_PROPERTIES
        \cup ZPOOL_STRING_PROPERTIES

\* Python values: a bool, a str, an int or None.
PyBool(b) == [type |-> "bool", b |-> b, s |-> "", n |-> 0]
PyStr(s) == [type |-> "str", b |-> FALSE, s |-> s, n |-> 0]
PyInt(n) == [type |-> "int", b |-> FALSE, s |-> "", n |-> n]
PyNone == [type |-> "none", b |-> FALSE, s |-> "", n |-> 0]

\* bool(value)
Truthy(v) ==
    CASE v.type = "bool" -> v.b
      [] v.type = "str" -> v.s # ""
      [] v.type = "int" -> v.n # 0
      [] OTHER -> FALSE

RECURSIVE NatToStr(_)
NatToStr(n) ==
    IF n < 10 THEN Char(Digits, n + 1)
    ELSE NatToStr(n \div 10) \o Char(Digits, (n % 10) + 1)

\* '%s' % value
Str(v) ==
    CASE v.type = "bool" -> (IF v.b THEN "True" ELSE "False")
      [] v.type = "str" -> v.s
      [] v.type = "int" -> (IF v.n < 0 THEN "-" \o NatToStr(0 - v.n) ELSE NatToStr(v.n))
      [] OTHER -> "None"

\* isinstance(x, int): bool is a subclass of int.
IsInstanceInt(v) == v.type \in {"int", "bool"}

IsInstanceStr(v) == v.type = "str"

\* ZPOOL_PROPERTY_VALIDATORS
ZPOOL_PROPERTY_VALIDATORS(property, v) ==
    CASE property = "altroot" -> IsInstanceStr(v)
      [] property = "bootfs" -> IsInstanceStr(v) /\ HasSlash(v.s)
      [] property = "cachefile" -> IsInstanceInt(v)
      [] property = "dedupditto" -> IsInstanceInt(v)
      [] property = "failmode" -> IsInstanceStr(v) /\ v.s \in {"wait", "continue", "panic"}
      [] property = "version" -> IsInstanceInt(v)
      [] OTHER -> TRUE

\* Amount of distinct values a set call is given beyond True, False and None.
MaxValues == 3

\* Values set_property is called with.
SetValues ==
    {PyBool(TRUE), PyBool(FALSE), PyNone}
        \cup {<<PyStr("on"), PyStr("t/x"), PyInt(5), PyStr("wait")>>[i] :
                 i \in 1..(IF MaxValues < 4 THEN MaxValues ELSE 4)}

\* Texts the external subsystem may report for a property from the start.
ReportedTexts == {"-", "on", "off", "ONLINE"}

FsName == "t/x"

\* Names the calls are made with: of each schema, names of every kind and of
\* every combination of kinds a name has, and a name that is in no schema.
FsKeys == {"atime", "readonly", "type", "used", "quota", "bogus"}

PoolKeys ==
    {"autoexpand", "readonly", "health", "size", "expandsize", "altroot",
     "bootfs", "cachefile", "comment", "dedupditto", "failmode", "version",
     "bogus"}

\* What `zfs get -H KEY NAME` prints: name, property, value, source.
ZfsGet(ext, key) ==
    IF ext.scope = "zfs" /\ ext.key = key
    THEN <<FsName \o "\t" \o key \o "\t" \o ext.text \o "\tlocal", "">>
    ELSE <<"">>

\* What `zpool list -H -o PROPERTY NAME` prints: the value.
ZpoolGet(ext, property) ==
    IF ext.scope = "zpool" /\ ext.key = property THEN <<ext.text, "">> ELSE <<"">>

\* `zfs set` and `zpool set` on the external subsystem: the argument is
\* property=text, and the text is stored as it was passed.
ExtSet(scope, arg) ==
    [scope |-> scope, key |-> Before(arg, Find(arg, "=")),
     text |-> After(arg, Find(arg, "="))]

\* line.split(): the line's fields, cut at every run of blanks.
RECURSIVE Tokens(_)
Tokens(line) ==
    IF Len(line) = 0 THEN <<>>
    ELSE IF IsSpace(Head(line)) THEN Tokens(Tail(line))
    ELSE LET token == FirstToken(line)
         IN  <<token>> \o Tokens(SubSeq(line, Len(token) + 1, Len(line)))

\* The loop of ZFS.get_property over the output lines, from line i on: the
\* value of the first line of four fields that names this filesystem and
\* key, None when there is none.
RECURSIVE FsFindValue(_, _, _)
FsFindValue(lines, i, key) ==
    IF i > Len(lines) THEN PyNone
    ELSE LET f == Tokens(lines[i])
         IN  IF Len(f) >= 4 /\ f[1] = FsName /\ f[2] = key THEN PyStr(f[3])
             ELSE FsFindValue(lines, i + 1, key)

Result(err, ret, cmds) == [err |-> err, ret |-> ret, cmds |-> cmds]

\* ZFS.get_property(key).  ZFS_OPTIONAL_PROPERTIES is defined nowhere in
\* ultimatum/zfs/zfs.py and is not imported: reading it raises NameError.
FsGetProperty(ext, key) ==
    LET cmd == <<"zfs", "get", "-H", key, FsName>>
        value == FsFindValue(OutputLines(ZfsGet(ext, key)), 1, key)
    IN  IF key \notin ZFS_PROPERTIES THEN Result("Invalid property name", PyNone, <<>>)
        ELSE IF value = PyNone THEN Result("none", PyNone, <<cmd>>)
        ELSE IF value.s = "-" THEN Result("NameError", PyNone, <<cmd>>)
        ELSE IF key \in ZFS_BOOLEAN_PROPERTIES
        THEN Result("none", PyBool(value.s = "on"), <<cmd>>)
        ELSE Result("none", value, <<cmd>>)

\* set_property without the check of the read-only names.
FsSetPropertyUnchecked(key, value) ==
    LET text == IF key \in ZFS_BOOLEAN_PROPERTIES
                THEN (IF Truthy(value) THEN "on" ELSE "off")
                ELSE IF value = PyNone THEN "none"
                ELSE Str(value)
    IN  IF key \notin ZFS_PROPERTIES THEN Result("Invalid property name", PyNone, <<>>)
        ELSE Result("none", PyNone, <<<<"zfs", "set", key \o "=" \o text, FsName>>>>)

\* ZFS.set_property(key, value): skip_quotes is a non-empty string from the
\* start, so the value is never quoted.
FsSetProperty(key, value) ==
    LET text == IF key \in ZFS_BOOLEAN_PROPERTIES
                THEN (IF Truthy(value) THEN "on" ELSE "off")
                ELSE IF value = PyNone THEN "none"
                ELSE Str(value)
    IN  IF key \notin ZFS_PROPERTIES THEN Result("Invalid property name", PyNone, <<>>)
        ELSE IF key \in ZFS_READONLY_PROPERTIES
        THEN Result("Readonly property", PyNone, <<>>)
        ELSE Result("none", PyNone, <<<<"zfs", "set", key \o "=" \o text, FsName>>>>)

RECURSIVE Join(_)
Join(lines) ==
    IF Len(lines) = 0 THEN ""
    ELSE IF Len(lines) = 1 THEN lines[1]
    ELSE lines[1] \o " " \o Join(Tail(lines))

\* ZPool.get_property(property)
PoolGetProperty(ext, property) ==
    LET cmd == <<"zpool", "list", "-H", "-o", property, PoolName>>
        value == Join(OutputLines(ZpoolGet(ext, property)))
    IN  IF property \notin ZPOOL_PROPERTIES
        THEN Result("Invalid property name", PyNone, <<>>)
        ELSE IF value = "-" /\ property \in ZPOOL_OPTIONAL_PROPERTIES
        THEN Result("none", PyNone, <<cmd>>)
        ELSE IF property \in ZPOOL_BOOLEAN_PROPERTIES
        THEN Result("none", PyBool(value = "on"), <<cmd>>)
        ELSE IF property = "health" /\ value \notin ZPOOL_HEALTH_STATES
        THEN Result("Unknown health state for pool", PyNone, <<cmd>>)
        ELSE Result("none", PyStr(value), <<cmd>>)

\* ZPool.set_property(property, value): the value is always quoted.
PoolSetProperty(property, value) ==
    LET text == IF property \in ZPOOL_BOOLEAN_PROPERTIES
                THEN (IF Truthy(value) THEN "on" ELSE "off")
                ELSE IF value = PyNone THEN "none"
                ELSE Str(value)
    IN  IF property \notin ZPOOL_PROPERTIES
        THEN Result("Invalid property name", PyNone, <<>>)
        ELSE IF property \in ZPOOL_READONLY_PROPERTIES
        THEN Result("Readonly property", PyNone, <<>>)
        ELSE IF ~ZPOOL_PROPERTY_VALIDATORS(property, value)
        THEN Result("Unknown value for property", PyNone, <<>>)
        ELSE Result("none", PyNone,
                    <<<<"zpool", "set", property \o "=\"" \o text \o "\"", PoolName>>>>)

NoPropOp == [op |-> "none", scope |-> "", key |-> "", value |-> PyNone, after |-> "none"]

PropInit ==
    /\ extProp \in [scope : {"zfs"}, key : FsKeys \cap ZFS_PROPERTIES,
                      text : ReportedTexts]
                      \cup [scope : {"zpool"}, key : PoolKeys \cap ZPOOL_PROPERTIES,
                            text : ReportedTexts]
    /\ propOp = NoPropOp
    /\ propErr = "none"
    /\ propRet = PyNone
    /\ propCmds = <<>>

\* What the operation before this one was, when it was a set that returned:
\* the scope, key and value it set.
LastSet ==
    IF propOp.op = "set" /\ propErr = "none"
    THEN [scope |-> propOp.scope, key |-> propOp.key, value |-> propOp.value]
    ELSE [scope |-> "", key |-> "", value |-> PyNone]

SetCall(scope, key, value) ==
    LET r == IF scope = "zfs" THEN FsSetProperty(key, value)
             ELSE PoolSetProperty(key, value)
    IN  /\ propOp' = [op |-> "set", scope |-> scope, key |-> key, value |-> value,
                      after |-> "none"]
        /\ propErr' = r.err
        /\ propRet' = r.ret
        /\ propCmds' = r.cmds
        /\ extProp' = IF Len(r.cmds) = 0 THEN extProp ELSE ExtSet(scope, r.cmds[1][3])

GetCall(scope, key) ==
    LET r == IF scope = "zfs" THEN FsGetProperty(extProp, key)
             ELSE PoolGetProperty(extProp, key)
    IN  /\ propOp' = [op |-> "get", scope |-> scope, key |-> key,
                      value |-> IF LastSet.scope = scope /\ LastSet.key = key
                                THEN LastSet.value ELSE PyNone,
                      after |-> IF LastSet.scope = scope /\ LastSet.key = key
                                THEN "set" ELSE "none"]
        /\ propErr' = r.err
        /\ propRet' = r.ret
        /\ propCmds' = r.cmds
        /\ UNCHANGED extProp

FsSet == \E key \in FsKeys, value \in SetValues : SetCall("zfs", key, value)

PoolSet == \E key \in PoolKeys, value \in SetValues : SetCall("zpool", key, value)

\* A get of the property the external subsystem reports, or of a name that
\* is no property.
FsGet == \E key \in FsKeys : key \in {extProp.key, "bogus"} /\ GetCall("zfs", key)

PoolGet == \E key \in PoolKeys : key \in {extProp.key, "bogus"} /\ GetCall("zpool", key)

(***************************************************************************)
(* ZFSVolume.clone (ultimatum/zfs.py): the tag follows from the last tag   *)
(* the catalog holds for the volume.                                       *)
(***************************************************************************)

\* The volume's snapshots as the catalog holds them.
CatalogTags(volume) ==
    VolumeSnapshots(catalog, PoolOf(volume), VolumeName(PoolOf(volume), volume))

\* The tag clone() chooses after the latest tag: [err, tag].  A timestamp is
\* followed by the time of the clock, an integer by the next integer.
NextTag(latest, now) ==
    IF Strptime(latest).ok THEN [err |-> "none", tag |-> now]
    ELSE IF ParseInt(latest).ok
    THEN [err |-> "none", tag |-> Str(PyInt(ParseInt(latest).val[1] + 1))]
    ELSE [err |-> "Snapshot tag format not supported", tag |-> ""]

\* src_args of clone(): the base is the latest tag itself.
VolumeSendArgs(tags, volume, tag) ==
    IF Len(tags) > 0
    THEN <<"zfs", "send", "-i", tags[Len(tags)], volume \o "@" \o tag>>
    ELSE <<"zfs", "send", volume \o "@" \o tag>>

\* clone() from create_snapshot(tag) on: the external command, then the
\* reload of the catalog with outcome r, then the two processes.
VolumeCloneLaunch(volume, tags, tag, ext, r) ==
    /\ catOp' = [op |-> "ZFSVolume.clone", had |-> tag \in Range(tags),
                 fs |-> volume, tag |-> tag, given |-> FALSE]
    /\ fsRet' = RetNone
    /\ UNCHANGED callers
    /\ catCmds' = <<SnapshotCmd(volume \o "@" \o tag)>> \o (IF ext.ok THEN <<ListCmd>> ELSE <<>>)
    /\ IF ~ext.ok
       THEN /\ catErr' = "Error creating snapshot"
            /\ pipeline' = NoPipeline
            /\ UNCHANGED <<extSnaps, catalog>>
       ELSE /\ extSnaps' = ext.snaps
            /\ catalog' = r.cat
            /\ catErr' = r.err
            /\ pipeline' = IF r.err # "none" THEN NoPipeline
                           ELSE [NoPipeline EXCEPT
                                    !.state = "running",
                                    !.src = VolumeSendArgs(tags, volume, tag),
                                    !.dst = <<"zfs", "receive", "-d", TargetPool>>]

\* clone() raising before any command.
VolumeCloneRefused(volume, err) ==
    /\ catOp' = [op |-> "ZFSVolume.clone", had |-> FALSE, fs |-> volume, tag |-> "",
                 given |-> FALSE]
    /\ catErr' = err
    /\ catCmds' = <<>>
    /\ fsRet' = RetNone
    /\ pipeline' = NoPipeline
    /\ UNCHANGED <<extSnaps, catalog, callers>>

VolumeCloneTagged(volume, tags, next) ==
    IF next.err # "none" THEN VolumeCloneRefused(volume, next.err)
    ELSE \E r \in ReloadResults(ZfsSnapshot(extSnaps, volume \o "@" \o next.tag).snaps) :
            VolumeCloneLaunch(volume, tags, next.tag,
                              ZfsSnapshot(extSnaps, volume \o "@" \o next.tag), r)

\* A call of clone(backup_pool) at a time now of the clock.
VolumeCloneStart ==
    \E volume \in Datasets, now \in Clock :
        /\ pipeline.state # "running"
        /\ Len(extSnaps) < MaxInit
        /\ VolumeCloneTagged(volume, CatalogTags(volume),
                             IF Len(CatalogTags(volume)) > 0
                             THEN NextTag(CatalogTags(volume)[Len(CatalogTags(volume))], now)
                             ELSE [err |-> "none", tag |-> now])

\* dst.communicate() returns when the receiving process has ended, and
\* clone() returns its exit status.
VolumeCloneWait ==
    /\ pipeline.state = "running"
    /\ catOp.op = "ZFSVolume.clone"
    /\ \E srcStatus \in ExitStatuses, dstStatus \in ExitStatuses :
          /\ pipeline' = [pipeline EXCEPT !.state = "done", !.srcStatus = srcStatus,
                                          !.dstStatus = dstStatus]
          /\ fsRet' = RetStatus(dstStatus)
          /\ extSnaps' = AfterPipeline(extSnaps, catOp.fs \o "@" \o catOp.tag, dstStatus)
    /\ UNCHANGED <<catalog, catErr, catOp, catCmds, callers>>

(***************************************************************************)
(* ZFSVolume.destroy_snapshot and rename_snapshot (ultimatum/zfs.py),      *)
(* ZFS.remove_snapshot (ultimatum/zfs/zfs.py)                              *)
(***************************************************************************)

\* Most snapshots the external subsystem holds while one caller creates,
\* destroys and renames.
MaxHeld == 2

\* create_snapshot(tag) while there is room for a snapshot.
VolumeCreateHeld ==
    \E volume \in Datasets, tag \in Tags :
        /\ Len(extSnaps) < MaxHeld \/ (volume \o "@" \o tag) \in Range(extSnaps)
        /\ VolumeCreateSnapshot(volume, tag)

\* `zfs destroy NAME`: fails when there is no such snapshot.
ZfsDestroy(snaps, name) ==
    IF name \notin Range(snaps) THEN [ok |-> FALSE, snaps |-> snaps]
    ELSE [ok |-> TRUE, snaps |-> SelectSeq(snaps, LAMBDA x : x # name)]

\* The snapshots `zfs rename -r VOLUME@OLD ...` renames: the one of the
\* volume and the ones of the datasets below it that carry the tag.
Renamed(x, volume, old) ==
    /\ After(x, Find(x, "@")) = old
    /\ \/ DatasetOf(x) = volume
       \/ StartsWith(DatasetOf(x), volume \o "/")

\* `zfs rename -r VOLUME@OLD VOLUME@NEW`: fails when the volume has no
\* snapshot OLD or when a snapshot to rename to exists already; a renamed
\* snapshot keeps its place in the listing.
ZfsRename(snaps, volume, old, new) ==
    IF \/ (volume \o "@" \o old) \notin Range(snaps)
       \/ \E i \in DOMAIN snaps :
             /\ Renamed(snaps[i], volume, old)
             /\ (DatasetOf(snaps[i]) \o "@" \o new) \in Range(snaps)
    THEN [ok |-> FALSE, snaps |-> snaps]
    ELSE [ok |-> TRUE,
          snaps |-> [i \in DOMAIN snaps |->
                        IF Renamed(snaps[i], volume, old)
                        THEN DatasetOf(snaps[i]) \o "@" \o new
                        ELSE snaps[i]]]

DestroyCmd(name) == <<"zfs", "destroy", name>>

RenameCmd(from, to) == <<"zfs", "rename", "-r", from, to>>

\* self.pool.reload_snapshots() after a command that succeeded.
VolumeReload(cmd, snaps) ==
    /\ extSnaps' = snaps
    /\ catCmds' = <<cmd, ListCmd>>
    /\ \E r \in ReloadResults(snaps) :
          /\ catalog' = r.cat
          /\ catErr' = r.err

\* ZFSVolume.destroy_snapshot(tag).  A tag the catalog does not hold for
\* the volume reaches `raise '...'`, a string, which is a TypeError at the
\* raise statement; a failing command raises ZFSError.
VolumeDestroySnapshot(volume, tag, ext) ==
    /\ catOp' = [op |-> "ZFSVolume.destroy_snapshot",
                 had |-> tag \in Range(CatalogTags(volume)),
                 fs |-> volume, tag |-> tag]
    /\ IF tag \notin Range(CatalogTags(volume))
       THEN /\ catErr' = "TypeError"
            /\ catCmds' = <<>>
            /\ UNCHANGED <<extSnaps, catalog>>
       ELSE IF ~ext.ok
       THEN /\ catErr' = "Error destroying snapshot"
            /\ catCmds' = <<DestroyCmd(volume \o "@" \o tag)>>
            /\ UNCHANGED <<extSnaps, catalog>>
       ELSE VolumeReload(DestroyCmd(volume \o "@" \o tag), ext.snaps)

VolumeDestroy ==
    \E volume \in Datasets, tag \in Tags :
        VolumeDestroySnapshot(volume, tag, ZfsDestroy(extSnaps, volume \o "@" \o tag))

\* ZFSVolume.rename_snapshot(old, new): the command is issued whatever the
\* catalog holds.  When it fails, the message of the ZFSError to raise is
\* formatted from one %s and two values, which is a TypeError.
VolumeRenameSnapshot(volume, old, new, ext) ==
    /\ catOp' = [op |-> "ZFSVolume.rename_snapshot",
                 had |-> old \in Range(CatalogTags(volume)),
                 fs |-> volume, tag |-> old]
    /\ IF ~ext.ok
       THEN /\ catErr' = "TypeError"
            /\ catCmds' = <<RenameCmd(volume \o "@" \o old, volume \o "@" \o new)>>
            /\ UNCHANGED <<extSnaps, catalog>>
       ELSE VolumeReload(RenameCmd(volume \o "@" \o old, volume \o "@" \o new), ext.snaps)

VolumeRename ==
    \E volume \in Datasets, old \in Tags, new \in Tags :
        VolumeRenameSnapshot(volume, old, new, ZfsRename(extSnaps, volume, old, new))

\* ZFS.remove_snapshot(value): a tag is looked up in the filesystem's
\* snapshots before `zfs destroy` is issued, a ZFSSnapshot is destroyed by
\* its name without a look.
FsRemoveSnapshot(fs, tag, asSnapshot, ext) ==
    /\ catOp' = [op |-> "ZFS.remove_snapshot",
                 had |-> (fs \o "@" \o tag) \in Range(FsSnapshots(extSnaps, fs)),
                 fs |-> fs, tag |-> tag]
    /\ UNCHANGED catalog
    /\ IF ~asSnapshot /\ (fs \o "@" \o tag) \notin Range(FsSnapshots(extSnaps, fs))
       THEN /\ catErr' = "No such snapshot"
            /\ catCmds' = <<FsListCmd(fs)>>
            /\ UNCHANGED extSnaps
       ELSE /\ catErr' = IF ext.ok THEN "none" ELSE "CommandExecutionFailed"
            /\ catCmds' = (IF asSnapshot THEN <<>> ELSE <<FsListCmd(fs)>>)
                              \o <<DestroyCmd(fs \o "@" \o tag)>>
            /\ extSnaps' = ext.snaps

FsRemove ==
    \E fs \in Datasets, tag \in Tags, asSnapshot \in BOOLEAN :
        FsRemoveSnapshot(fs, tag, asSnapshot, ZfsDestroy(extSnaps, fs \o "@" \o tag))

(***************************************************************************)
(* ZFS.create_snapshot called by two callers at once.  A call reads the    *)
(* filesystem's snapshots for its check, then issues `zfs snapshot`: two   *)
(* commands of the external subsystem, with nothing held between them.     *)
(***************************************************************************)

\* Longest listing the two callers start from.
MaxRaceInit == 1

\* `name in self.snapshots` at the time the caller reads the listing: an
\* arbitrating check, which also looks at what the other callers are
\* doing.
AlreadyExistsOrPending(c, snaps, fs, name) ==
    \/ name \in Range(FsSnapshots(snaps, fs))
    \/ \E d \in Callers \ {c} :
          /\ callers[d].pc = "checked"
          /\ callers[d].fs \o "@" \o callers[d].tag = name

\* `name in self.snapshots` at the time the caller reads the listing.
AlreadyExists(c, snaps, fs, name) == name \in Range(FsSnapshots(snaps, fs))

\* Caller c enters create_snapshot(tag) on filesystem fs, the tag given or
\* taken from the clock, and checks the name.
RaceCheck(c) ==
    \E fs \in Datasets, tag \in Tags :
        /\ callers[c].pc = "idle"
        /\ callers' = [callers EXCEPT ![c] =
              IF AlreadyExists(c, extSnaps, fs, fs \o "@" \o tag)
              THEN [pc |-> "done", fs |-> fs, tag |-> tag,
                    err |-> "Snapshot already exists", cmds |-> <<FsListCmd(fs)>>]
              ELSE [pc |-> "checked", fs |-> fs, tag |-> tag,
                    err |-> "none", cmds |-> <<FsListCmd(fs)>>]]
        /\ UNCHANGED <<catVars, fsRet, pipeline>>

\* Caller c, past the check, issues `zfs snapshot` and returns the tag, or
\* raises when the command fails.
RaceIssue(c) ==
    /\ callers[c].pc = "checked"
    /\ extSnaps' = ZfsSnapshot(extSnaps, callers[c].fs \o "@" \o callers[c].tag).snaps
    /\ callers' = [callers EXCEPT ![c] =
          [@ EXCEPT !.pc = "done",
                    !.err = IF ZfsSnapshot(extSnaps, callers[c].fs \o "@" \o callers[c].tag).ok
                            THEN "none" ELSE "CommandExecutionFailed",
                    !.cmds = Append(@, SnapshotCmd(callers[c].fs \o "@" \o callers[c].tag))]]
    /\ UNCHANGED <<catalog, catErr, catOp, catCmds, fsRet, pipeline>>

(***************************************************************************)
(* Specifications                                                          *)
(***************************************************************************)

\* The parts of the state a specification leaves alone stay as these say.
CatIdle ==
    /\ extSnaps = <<>>
    /\ catalog = EmptyDict
    /\ catErr = "none"
    /\ catOp = NoOp
    /\ catCmds = <<>>

PoolIdle ==
    /\ imported = TRUE
    /\ extVols = <<>>
    /\ constructed = FALSE
    /\ vols = <<>>
    /\ poolOp = NoPoolOp
    /\ poolErr = "none"
    /\ poolRet = "None"
    /\ poolCmds = <<>>

PropIdle ==
    /\ extProp = [scope |-> "zfs", key |-> "atime", text |-> "on"]
    /\ propOp = NoPropOp
    /\ propErr = "none"
    /\ propRet = PyNone
    /\ propCmds = <<>>

FsIdle ==
    /\ fsRet = RetNone
    /\ pipeline = NoPipeline
    /\ callers = NoCallers

\* The snapshot catalog and the volumes of ultimatum/zfs.py.
InitCatalog == CatInit /\ PoolIdle /\ PropIdle /\ FsIdle

NextCatalog ==
    \/ Reload /\ UNCHANGED <<poolVars, propVars, fsVars>>
    \/ VolumeCreate /\ UNCHANGED <<poolVars, propVars, fsVars>>

SpecCatalog == InitCatalog /\ [][NextCatalog]_vars

\* The filesystems of ultimatum/zfs/zfs.py.
InitFs == CatInit /\ PoolIdle /\ PropIdle /\ FsIdle

NextFs == FsCreate /\ UNCHANGED <<poolVars, propVars, fsVars>>

SpecFs == InitFs /\ [][NextFs]_vars

\* ZFS.filter_snapshots on any listing.
InitFilter == CatInit /\ PoolIdle /\ PropIdle /\ FsIdle

NextFilter == FsFilter /\ UNCHANGED <<poolVars, propVars>>

SpecFilter == InitFilter /\ [][NextFilter]_vars

\* ZFS.clone_to_pool and ZFSVolume.clone, from the listings that leave room
\* for a snapshot; the catalog is the one ZFSSnapshots.__init__ loaded.
CloneInit ==
    /\ extSnaps \in Listings
    /\ Len(extSnaps) < MaxInit
    /\ catalog \in {r.cat : r \in ReloadOutcomes(ReloadParse(extSnaps))}
    /\ catErr = "none"
    /\ catOp = NoOp
    /\ catCmds = <<>>

InitClone == CloneInit /\ PoolIdle /\ PropIdle /\ FsIdle

NextClone ==
    \/ CloneStart /\ UNCHANGED <<poolVars, propVars>>
    \/ CloneWait /\ UNCHANGED <<poolVars, propVars>>
    \/ VolumeCloneStart /\ UNCHANGED <<poolVars, propVars>>
    \/ VolumeCloneWait /\ UNCHANGED <<poolVars, propVars>>

SpecClone == InitClone /\ [][NextClone]_vars

\* One caller of the volumes of ultimatum/zfs.py: the catalog is the one
\* ZFSSnapshots.__init__ loaded, and nothing else changes the snapshots.
VolumeInit ==
    /\ extSnaps \in Listings
    /\ Len(extSnaps) <= MaxHeld
    /\ catalog \in {r.cat : r \in ReloadOutcomes(ReloadParse(extSnaps))}
    /\ catErr = "none"
    /\ catOp = NoOp
    /\ catCmds = <<>>

InitVolume == VolumeInit /\ PoolIdle /\ PropIdle /\ FsIdle

NextVolume ==
    \/ VolumeCreateHeld /\ UNCHANGED <<poolVars, propVars, fsVars>>
    \/ VolumeDestroy /\ UNCHANGED <<poolVars, propVars, fsVars>>
    \/ VolumeRename /\ UNCHANGED <<poolVars, propVars, fsVars>>

SpecVolume == InitVolume /\ [][NextVolume]_vars

\* ZFS.remove_snapshot on any listing.
InitRemove == CatInit /\ PoolIdle /\ PropIdle /\ FsIdle

NextRemove == FsRemove /\ UNCHANGED <<poolVars, propVars, fsVars>>

SpecRemove == InitRemove /\ [][NextRemove]_vars

\* Two callers of ZFS.create_snapshot, each calling once, their commands
\* interleaved in any order.
InitRace ==
    /\ CatInit
    /\ Len(extSnaps) <= MaxRaceInit
    /\ PoolIdle
    /\ PropIdle
    /\ FsIdle

NextRace ==
    \/ \E c \in Callers : RaceCheck(c) /\ UNCHANGED <<poolVars, propVars>>
    \/ \E c \in Callers : RaceIssue(c) /\ UNCHANGED <<poolVars, propVars>>

SpecRace == InitRace /\ [][NextRace]_vars

\* The pool of ultimatum/zfs.py.
InitPool == PoolInit /\ CatIdle /\ PropIdle /\ FsIdle

NextPool ==
    \/ Construct /\ UNCHANGED <<catVars, propVars, fsVars>>
    \/ AvailableCall /\ UNCHANGED <<catVars, propVars, fsVars>>
    \/ IsAvailableCall /\ UNCHANGED <<catVars, propVars, fsVars>>
    \/ ImportCall /\ UNCHANGED <<catVars, propVars, fsVars>>
    \/ ExportCall /\ UNCHANGED <<catVars, propVars, fsVars>>
    \/ LoadCall /\ UNCHANGED <<catVars, propVars, fsVars>>
    \/ CreateVolumeCall /\ UNCHANGED <<catVars, propVars, fsVars>>
    \/ External /\ UNCHANGED <<catVars, propVars, fsVars>>

SpecPool == InitPool /\ [][NextPool]_vars

\* The properties of ultimatum/zfs/zfs.py and ultimatum/zfs/zpool.py.
InitProps == PropInit /\ CatIdle /\ PoolIdle /\ FsIdle

NextProps ==
    \/ FsSet /\ UNCHANGED <<catVars, poolVars, fsVars>>
    \/ PoolSet /\ UNCHANGED <<catVars, poolVars, fsVars>>
    \/ FsGet /\ UNCHANGED <<catVars, poolVars, fsVars>>
    \/ PoolGet /\ UNCHANGED <<catVars, poolVars, fsVars>>

SpecProps == InitProps /\ [][NextProps]_vars

(***************************************************************************)
(* Claims                                                                  *)
(***************************************************************************)

IssuedSnapshotOrDestroy ==
    \E i \in DOMAIN catCmds : catCmds[i][2] \in {"snapshot", "destroy"}

\* C1: a create_snapshot call whose tag is among the filesystem's current
\* snapshots fails with "Snapshot already exists" and issues no external
\* snapshot or destroy command.
C1_ExistingTagRefused ==
    (catOp.op \in {"ZFSVolume.create_snapshot", "ZFS.create_snapshot"} /\ catOp.had)
        => (catErr = "Snapshot already exists" /\ ~IssuedSnapshotOrDestroy)

AllParse(sorter, tags) == \A i \in DOMAIN tags : SorterParse(sorter, tags[i]).ok

InOrder(sorter, tags) ==
    \A i, j \in DOMAIN tags :
        i < j => ~ValLess(SorterParse(sorter, tags[j]).val,
                          SorterParse(sorter, tags[i]).val)

\* The ordering policy on one group: chronological when every tag is a
\* timestamp, else numeric when every tag is an integer.
PolicyApplied(tags) ==
    IF AllParse("timestamp", tags) THEN InOrder("timestamp", tags)
    ELSE IF AllParse("int", tags) THEN InOrder("int", tags)
    ELSE TRUE

\* C2: after reload() every (pool, filesystem) group of the catalog has had
\* the ordering policy applied, however many groups there are.
C2_EveryGroupOrdered ==
    (catOp.op = "reload" /\ catErr = "none")
        => \A g \in Groups(catalog) : PolicyApplied(catalog[g[1]][g[2]])

Reloaded ==
    /\ catErr = "none"
    /\ catOp.op \in {"reload", "ZFSVolume.create_snapshot"}

RECURSIVE TagCount(_, _)
TagCount(cat, groups) ==
    IF groups = {} THEN 0
    ELSE LET g == CHOOSE x \in groups : TRUE
         IN  Len(cat[g[1]][g[2]]) + TagCount(cat, groups \ {g})

\* Listing line n is filed under pool p and filesystem v with tag t, the tag
\* being what follows the '@' at place `at` of the line (the first or the
\* last one): the rest is p alone (the root filesystem, v = p) or p/v with
\* no '/' in p.
Filed(n, at, p, v, t) ==
    /\ at # 0
    /\ t = After(n, at)
    /\ ~HasChar(p, "/")
    /\ \/ Before(n, at) = p \o "/" \o v
       \/ Before(n, at) = p /\ v = p

FiledInCatalog(n, at) ==
    \E g \in Groups(catalog) :
        \E i \in DOMAIN catalog[g[1]][g[2]] :
            Filed(n, at, g[1], g[2], catalog[g[1]][g[2]][i])

\* C3 as stated: after reload() every listing line is filed with the text
\* after its last '@' as the tag.
C3_SplitAtLastAt ==
    Reloaded => \A n \in Range(extSnaps) : FiledInCatalog(n, RFind(n, "@"))

\* C3 as amended: after reload() every listing line is filed with the text
\* after its first '@' as the tag, under the pool before the first '/' of
\* the rest and the filesystem after it (the pool itself when there is no
\* '/'); the catalog holds one tag per line and nothing else.
C3_SplitAtFirstAt ==
    Reloaded =>
        /\ \A n \in Range(extSnaps) : FiledInCatalog(n, Find(n, "@"))
        /\ \A g \in Groups(catalog) :
              \A i \in DOMAIN catalog[g[1]][g[2]] :
                  \E n \in Range(extSnaps) :
                      Filed(n, Find(n, "@"), g[1], g[2], catalog[g[1]][g[2]][i])
        /\ TagCount(catalog, Groups(catalog)) = Len(extSnaps)

\* C3's case: a reloaded catalog over a listing that holds a line with two
\* '@', a root filesystem and a filesystem two levels below its pool.
C3_Witness ==
    /\ Reloaded
    /\ catOp.op = "reload"
    /\ \E n \in Range(extSnaps) : Find(n, "@") # RFind(n, "@")
    /\ \E n \in Range(extSnaps) : ~HasChar(n, "/")
    /\ \E n \in Range(extSnaps) : HasChar(After(n, Find(n, "/")), "/")

\* C4: the availability check returns False, and raises nothing, when the
\* pool is not imported, and True when it is.
C4_AvailableNeverRaises ==
    poolOp.op \in {"available", "is_available"}
        => /\ poolErr = "none"
           /\ poolRet = IF imported THEN "True" ELSE "False"

ImportsIssued == Cardinality({i \in DOMAIN poolCmds : poolCmds[i] = PoolImportCmd})

\* C5: constructing the pool object issues exactly one import when the pool
\* was unavailable and none when it was available; after a successful
\* import the pool is available and the list holds the listed filesystems;
\* a failed import raises "Error importing pool" and nothing is loaded.
C5_ImportOnceThenLoad ==
    poolOp.op = "__init__"
        => IF poolOp.wasImported THEN ImportsIssued = 0
           ELSE /\ ImportsIssued = 1
                /\ poolErr = "none"
                      => /\ imported
                         /\ constructed
                         /\ {vols[i].volume : i \in DOMAIN vols} = Range(extVols)
                /\ poolErr # "none"
                      => /\ poolErr = "Error importing pool"
                         /\ VolListCmd \notin Range(poolCmds)

\* C6: create_volume(name) raises "Attempt to create existing volume" and
\* issues no `zfs create` whenever the list holds the filesystem pool/name.
C6_ExistingVolumeRefused ==
    (poolOp.op = "create_volume" /\ poolOp.had)
        => /\ poolErr = "Attempt to create existing volume"
           /\ \A i \in DOMAIN poolCmds : poolCmds[i][2] # "create"

Schema(scope) == IF scope = "zfs" THEN ZFS_PROPERTIES ELSE ZPOOL_PROPERTIES

ReadonlyNames(scope) ==
    IF scope = "zfs" THEN ZFS_READONLY_PROPERTIES ELSE ZPOOL_READONLY_PROPERTIES

BooleanNames(scope) ==
    IF scope = "zfs" THEN ZFS_BOOLEAN_PROPERTIES ELSE ZPOOL_BOOLEAN_PROPERTIES

\* The names marked optional: the pool schema marks five, the filesystem
\* schema marks none.
OptionalNames(scope) == IF scope = "zfs" THEN {} ELSE ZPOOL_OPTIONAL_PROPERTIES

\* C8: for the filesystem and for the pool, get_property and set_property on
\* a name that is not in the schema raise "Invalid property name", and
\* set_property on a read-only name of the schema raises "Readonly
\* property" whatever the value; in both cases no command is issued.
C8_RejectedBeforeAnyCommand ==
    /\ (propOp.op \in {"get", "set"} /\ propOp.key \notin Schema(propOp.scope))
           => (propErr = "Invalid property name" /\ propCmds = <<>>)
    /\ (propOp.op = "set" /\ propOp.key \in ReadonlyNames(propOp.scope))
           => (propErr = "Readonly property" /\ propCmds = <<>>)

\* C8's case: a set of a read-only filesystem property was refused.
C8_Witness ==
    /\ propOp.op = "set"
    /\ propOp.scope = "zfs"
    /\ propOp.key \in ZFS_READONLY_PROPERTIES
    /\ propOp.value = PyInt(5)
    /\ propErr = "Readonly property"

\* C9: for every boolean property of a filesystem or a pool, and v True or
\* False, set_property(name, v) returns, and a get_property(name) that
\* follows returns v, when the external subsystem stores the text it is
\* passed and echoes it.
C9_BooleanRoundTrip ==
    /\ (propOp.op = "set" /\ propOp.key \in BooleanNames(propOp.scope)
            /\ propOp.value.type = "bool")
           => propErr = "none"
    /\ (propOp.op = "get" /\ propOp.after = "set"
            /\ propOp.key \in BooleanNames(propOp.scope)
            /\ propOp.value.type = "bool")
           => (propErr = "none" /\ propRet = propOp.value)

\* C10: when the external subsystem reports "-" for a property,
\* get_property raises nothing; it returns None for a property marked
\* optional, and for any other the conversion of "-" by its kind: False for
\* a boolean, the text "-" otherwise.
C10_DashReported ==
    (propOp.op = "get" /\ propOp.key \in Schema(propOp.scope)
         /\ extProp = [scope |-> propOp.scope, key |-> propOp.key, text |-> "-"])
        => /\ propErr = "none"
           /\ propRet = IF propOp.key \in OptionalNames(propOp.scope) THEN PyNone
                        ELSE IF propOp.key \in BooleanNames(propOp.scope)
                        THEN PyBool(FALSE)
                        ELSE PyStr("-")

\* The snapshots of filesystem fs in listing order whose tag is a timestamp
\* from start to stop, both included.
ListedWithin(fs, start, stop) ==
    SelectSeq(extSnaps,
              LAMBDA n : /\ SnapshotVolume(n) = fs
                         /\ ParseTimestamp(SnapshotTag(n)).ok
                         /\ ~ValLess(ParseTimestamp(SnapshotTag(n)).val, start)
                         /\ ~ValLess(stop, ParseTimestamp(SnapshotTag(n)).val))

\* C11: filter_snapshots(start, stop) with start <= stop returns, in listing
\* order, exactly the filesystem's snapshots whose tag parses as a timestamp
\* t with start <= t <= stop, and raises nothing for the tags that do not
\* parse; with start > stop it raises "Invalid date range" and returns
\* nothing.
C11_FilterInclusiveRange ==
    (catOp.op = "ZFS.filter_snapshots" /\ ParseTimestamp(catOp.start).ok
         /\ ParseTimestamp(catOp.stop).ok)
        => IF ValLess(ParseTimestamp(catOp.stop).val, ParseTimestamp(catOp.start).val)
           THEN /\ catErr = "Invalid date range: start is after stop"
                /\ fsRet = RetNone
           ELSE /\ catErr = "none"
                /\ fsRet = RetList(ListedWithin(catOp.fs, ParseTimestamp(catOp.start).val,
                                                ParseTimestamp(catOp.stop).val))

\* C11's case: a filesystem with two dated snapshots and one that is no
\* date, filtered from between the two dates to the later one, which is
\* the only snapshot returned.
C11_Witness ==
    /\ catOp.op = "ZFS.filter_snapshots"
    /\ catOp.start = "2020-02-01.00:00:00"
    /\ catOp.stop = "2020-03-01.00:00:00"
    /\ Len(FsSnapshots(extSnaps, catOp.fs)) = 3
    /\ \E n \in Range(extSnaps) :
          SnapshotVolume(n) = catOp.fs /\ ~ParseTimestamp(SnapshotTag(n)).ok
    /\ fsRet = RetList(<<catOp.fs \o "@2020-03-01.00:00:00">>)

\* clone_to_pool has created its snapshot and started the two processes.
Launched ==
    /\ catOp.op \in {"ZFS.clone_to_pool", "ZFSVolume.clone"}
    /\ pipeline.state \in {"running", "done"}

\* The snapshot clone_to_pool created.
Created == catOp.fs \o "@" \o catOp.tag

\* The tags the filesystem had before clone_to_pool created its snapshot, in
\* listing order.
TagsBefore ==
    LET before == SelectSeq(FsSnapshots(extSnaps, catOp.fs), LAMBDA x : x # Created)
    IN  [i \in 1..Len(before) |-> SnapshotTag(before[i])]

\* t is the latest of tags by the ordering policy: the greatest timestamp
\* when all are timestamps, else the greatest integer when all are
\* integers, else the last listed.
IsLatest(t, tags) ==
    IF AllParse("timestamp", tags)
    THEN \A i \in DOMAIN tags :
            ~ValLess(SorterParse("timestamp", t).val, SorterParse("timestamp", tags[i]).val)
    ELSE IF AllParse("int", tags)
    THEN \A i \in DOMAIN tags :
            ~ValLess(SorterParse("int", t).val, SorterParse("int", tags[i]).val)
    ELSE t = tags[Len(tags)]

\* C12: clone_to_pool sends a full stream, with no base, when the filesystem
\* had no snapshot before the new one was created, and otherwise an
\* incremental stream whose base is the latest earlier tag by the ordering
\* policy.
C12_BaseIsLatestByOrder ==
    Launched
        => IF Len(TagsBefore) = 0
           THEN Len(pipeline.src) = 3 /\ pipeline.src[3] # "-i"
           ELSE /\ Len(pipeline.src) = 5
                /\ pipeline.src[3] = "-i"
                /\ SnapshotTag(pipeline.src[4]) \in Range(TagsBefore)
                /\ IsLatest(SnapshotTag(pipeline.src[4]), TagsBefore)

\* C13: when the receiving process has ended, clone_to_pool returns its exit
\* status, whatever the sending process exited with.
C13_ReturnsReceiveStatus ==
    (Launched /\ pipeline.state = "done") => fsRet = RetStatus(pipeline.dstStatus)

\* C14: once clone_to_pool has created its snapshot, the snapshot stays on
\* the source filesystem while the processes run and after they end,
\* whatever their exit statuses: no destroy or rollback is issued.
C14_SnapshotKept ==
    Launched
        => /\ Created \in Range(extSnaps)
           /\ \A i \in DOMAIN catCmds : catCmds[i][2] \notin {"destroy", "rollback"}
           /\ pipeline.src[2] = "send"
           /\ pipeline.dst[2] = "receive"

\* C14's case: the receiving process failed and the new snapshot is there.
C14_Witness ==
    /\ Launched
    /\ pipeline.state = "done"
    /\ pipeline.dstStatus = 1
    /\ Created \in Range(extSnaps)

\* C16: the snapshot named last in the `zfs send` command is the snapshot
\* clone_to_pool created, also when the tag was taken from the clock.
C16_SendsCreatedSnapshot ==
    Launched
        => /\ pipeline.src[Len(pipeline.src)] = Created
           /\ pipeline.src[Len(pipeline.src)] \in Range(extSnaps)

\* A destroy or a rename of a snapshot the volume did not have.
AbsentCall ==
    /\ catOp.op \in {"ZFSVolume.destroy_snapshot", "ZFSVolume.rename_snapshot",
                     "ZFS.remove_snapshot"}
    /\ ~catOp.had

\* C15: destroying a tag the filesystem does not have, and renaming one it
\* does not have, raise the module's "No such snapshot" error, and no
\* `zfs destroy` or `zfs rename` command is issued.
C15_AbsentRaisesNotFound ==
    AbsentCall
        => /\ catErr = "No such snapshot"
           /\ \A i \in DOMAIN catCmds : catCmds[i][2] \notin {"destroy", "rename"}

\* A create, destroy or rename of the volumes that returned.
VolumeCallReturned ==
    /\ catOp.op \in {"ZFSVolume.create_snapshot", "ZFSVolume.destroy_snapshot",
                     "ZFSVolume.rename_snapshot"}
    /\ catErr = "none"

\* C17: with one caller and nothing else changing the snapshots, whenever a
\* create, destroy or rename has returned, the catalog was reloaded last,
\* and for every pool and filesystem it holds the tags of the snapshots the
\* external subsystem has, and no more.
C17_CatalogMatchesExternal ==
    VolumeCallReturned
        => /\ catCmds[Len(catCmds)] = ListCmd
           /\ \A n \in Range(extSnaps) : FiledInCatalog(n, Find(n, "@"))
           /\ \A g \in Groups(catalog) :
                 \A i \in DOMAIN catalog[g[1]][g[2]] :
                     \E n \in Range(extSnaps) :
                         Filed(n, Find(n, "@"), g[1], g[2], catalog[g[1]][g[2]][i])
           /\ TagCount(catalog, Groups(catalog)) = Len(extSnaps)

\* C17's case: a rename has returned that renamed the snapshot of a
\* filesystem and the one of a filesystem below it.
C17_Witness ==
    /\ VolumeCallReturned
    /\ catOp.op = "ZFSVolume.rename_snapshot"
    /\ catOp.fs = "a"
    /\ \E t \in Tags \ {catOp.tag} : {"a@" \o t, "a/x@" \o t} \subseteq Range(extSnaps)

\* The snapshot caller c creates.
CallerName(c) == callers[c].fs \o "@" \o callers[c].tag

\* C18: nothing arbitrates between two callers of create_snapshot.  The
\* check of a caller passes exactly when the snapshot is not among the
\* filesystem's snapshots at that moment, whatever the other caller has checked and not yet created, and a
\* caller past the check issues `zfs snapshot` whatever has happened since.
C18_NoArbitration ==
    [][\A c \in Callers :
          /\ (callers[c].pc = "idle" /\ callers'[c].pc # "idle")
                => (callers'[c].pc = "checked"
                       <=> (callers'[c].fs \o "@" \o callers'[c].tag)
                               \notin Range(FsSnapshots(extSnaps, callers'[c].fs)))
          /\ (callers[c].pc = "checked" /\ callers'[c].pc # "checked")
                => /\ callers'[c].pc = "done"
                   /\ callers'[c].cmds[Len(callers'[c].cmds)] = SnapshotCmd(CallerName(c))]_vars

\* C18's case: both callers passed the check for the same filesystem and
\* tag and both issued `zfs snapshot`; the second command failed.
C18_Witness ==
    /\ CallerName(1) = CallerName(2)
    /\ \A c \in Callers :
          /\ callers[c].pc = "done"
          /\ callers[c].err # "Snapshot already exists"
          /\ SnapshotCmd(CallerName(c)) \in Range(callers[c].cmds)
    /\ \E c \in Callers : callers[c].err = "CommandExecutionFailed"

=============================================================================
